---- MODULE Spec2Model ----
(***************************************************************************)
(* Kronos Blackhole (service.py): the rule-set loader, the hostname        *)
(* matcher, the three patched network primitives and the main_loop         *)
(* lifecycle, as a state machine.                                          *)
(*                                                                         *)
(* A Python str is a sequence of one-character strings; a hostname value   *)
(* handed to a hook is None, a str or a bytes object.                      *)
(***************************************************************************)
EXTENDS Integers, Sequences, FiniteSets, TLC

(* ---------- bounds ---------- *)
\* longest rule-set file, in lines
MaxLines == 2

(* ---------- Python str primitives ---------- *)
\* str.lower() on one character (ASCII letters of the alphabet used here)
LowerChar(c) ==
    CASE c = "A" -> "a"
      [] c = "B" -> "b"
      [] c = "C" -> "c"
      [] OTHER -> c

\* str.lower()
Lower(s) == [k \in 1..Len(s) |-> LowerChar(s[k])]

\* str.isspace() on one character
IsSpace(c) == c = " "

\* str.lstrip()
RECURSIVE LStrip(_)
LStrip(s) ==
    IF s # <<>> /\ IsSpace(Head(s)) THEN LStrip(Tail(s)) ELSE s

\* str.rstrip()
RECURSIVE RStrip(_)
RStrip(s) ==
    IF s # <<>> /\ IsSpace(s[Len(s)]) THEN RStrip(SubSeq(s, 1, Len(s) - 1)) ELSE s

\* str.strip()
Strip(s) == RStrip(LStrip(s))

\* str.startswith(p)
StartsWith(s, p) == Len(s) >= Len(p) /\ SubSeq(s, 1, Len(p)) = p

\* str.endswith(p)
EndsWith(s, p) == Len(s) >= Len(p) /\ SubSeq(s, Len(s) - Len(p) + 1, Len(s)) = p

\* str.split('.'): always at least one part, empty parts are kept
RECURSIVE Split(_)
Split(s) ==
    IF \A k \in 1..Len(s) : s[k] # "."
    THEN <<s>>
    ELSE LET k == CHOOSE j \in 1..Len(s) : s[j] = "." /\ \A m \in 1..(j - 1) : s[m] # "."
         IN  <<SubSeq(s, 1, k - 1)>> \o Split(SubSeq(s, k + 1, Len(s)))

\* ".".join(parts)
RECURSIVE Join(_)
Join(parts) ==
    IF parts = <<>> THEN <<>>
    ELSE IF Len(parts) = 1 THEN parts[1]
    ELSE parts[1] \o <<".">> \o Join(Tail(parts))

\* ".".join(parts[i:]) with Python's 0-based i
SuffixFrom(parts, i) == Join(SubSeq(parts, i + 1, Len(parts)))

(* ---------- the strings used as inputs ---------- *)
s_empty == <<>>
s_b == <<"b">>
s_ab == <<"a", ".", "b">>
s_Ab == <<"A", ".", "b">>
s_cb == <<"c", ".", "b">>
s_bab == <<"b", "a", ".", "b">>
s_cab == <<"c", ".", "a", ".", "b">>
s_a == <<"a">>
\* rule-file lines that need normalising, or that are not hostnames
l_Ab_ws == <<" ", "A", ".", "B", " ">>
l_comment == <<" ", "#", "b">>
l_dot == <<"b", ".">>
l_wild == <<"*", ".", "b">>
\* the well-known trackers self_test_once prefers, in the order it tries them
PROBES == <<
    <<"g", "o", "o", "g", "l", "e", "-", "a", "n", "a", "l", "y", "t", "i", "c", "s", ".", "c", "o", "m">>,
    <<"s", "t", "a", "t", "s", ".", "w", "p", ".", "c", "o", "m">>,
    <<"a", "p", "i", ".", "m", "i", "x", "p", "a", "n", "e", "l", ".", "c", "o", "m">> >>

(* ---------- rule-set files ---------- *)
\* A file that cannot be opened, and a readable file holding `lines`
\* (what fh.read().splitlines() returns).
Missing == [ok |-> FALSE, lines |-> <<>>]
File(lines) == [ok |-> TRUE, lines |-> lines]

\* all sequences over S of length at most n
RECURSIVE SeqsUpTo(_, _)
SeqsUpTo(S, n) ==
    IF n = 0 THEN {<<>>}
    ELSE LET shorter == SeqsUpTo(S, n - 1)
         IN  shorter \cup {Append(q, x) : q \in {r \in shorter : Len(r) = n - 1}, x \in S}

\* lines a blocklist / an allowlist may hold in the loader and matcher checks
BlockLines == {s_b, s_ab, l_Ab_ws, l_comment, s_empty, l_dot, l_wild}
AllowLines == {s_ab, l_Ab_ws, s_cab}
BlockFiles == {Missing} \cup {File(q) : q \in SeqsUpTo(BlockLines, MaxLines)}
AllowFiles == {Missing} \cup {File(q) : q \in SeqsUpTo(AllowLines, MaxLines)}

\* no read of the file has been made yet
NotRead == [ok |-> FALSE, lines |-> <<>>]

\* the contents the two files take while the service runs; the files may
\* change at any time, each read finds one of them
LiveBlockFiles == {Missing, File(<<s_ab>>), File(<<s_b, PROBES[2]>>)}
LiveAllowFiles == {Missing, File(<<s_ab>>)}

(* ---------- hostname values handed to the hooks ---------- *)
None == [t |-> "None", s |-> <<>>]
Str(s) == [t |-> "str", s |-> s]
Bytes(s) == [t |-> "bytes", s |-> s]

\* hostnames the matcher is checked on
MatchHosts == {None} \cup {Str(s) : s \in {s_empty, s_b, s_a, s_ab, s_Ab, s_cb, s_bab, s_cab, l_dot}}
\* hostnames the host's networking threads pass to a primitive, in the types
\* the original accepts: getaddrinfo takes str, bytes or None as host, a
\* header value may be str or bytes, server_hostname is a str or None
HookHosts(site) ==
    CASE site = "wrap_socket" -> {None, Str(s_Ab)}
      [] site = "getaddrinfo" -> {None, Str(s_empty), Str(s_Ab), Bytes(s_ab)}
      [] site = "http_request" -> {None, Str(s_Ab), Bytes(s_ab)}

(* ---------- logging (log, _file_log) ---------- *)
\* A log line is its fixed text, what it is about (a path, or nothing),
\* whether it went to the Kodi log (xbmc.log, line 52) and whether _file_log
\* appended it to blackhole.log (lines 42-43) or failed to (lines 44-46).
\* The state keeps the lines of the latest write.
LineAbout(msg, about) == [msg |-> msg, about |-> about, kodi |-> TRUE, filed |-> TRUE]
\* log(message): xbmc.log, then _file_log
Line(msg) == LineAbout(msg, "")
\* _file_log(msg) called directly: nothing goes to the Kodi log
FileLine(msg) == [msg |-> msg, about |-> "", kodi |-> FALSE, filed |-> TRUE]
LogAppend(l, lines) == IF lines = <<>> THEN l ELSE lines
\* line 46: what _file_log sends to the Kodi log when an append failed
FileLogFailed == [msg |-> "File log failed", about |-> "", kodi |-> TRUE, filed |-> FALSE]
\* the lines with the outcome f[k] of the append of line k: blackhole.log is
\* opened anew for every line (line 42) and the failure of one append is
\* caught (line 44), so the caller goes on either way
RECURSIVE Logged(_, _)
Logged(lines, f) ==
    IF lines = <<>> THEN <<>>
    ELSE (IF Head(f) THEN <<Head(lines)>>
          ELSE <<[Head(lines) EXCEPT !.filed = FALSE], FileLogFailed>>)
         \o Logged(Tail(lines), Tail(f))
\* every append succeeds or fails on its own
Attempts(lines) == {Logged(lines, f) : f \in [1..Len(lines) -> BOOLEAN]}

(* ---------- Lists: _read_lines_native, load_blocklists.parse ---------- *)
\* _read_lines_native without its try/except: the error of open() propagates
_read_lines_native_Raises(file, path) ==
    IF file.ok
    THEN [lines |-> file.lines, logged |-> <<>>, raised |-> FALSE]
    ELSE [lines |-> <<>>, logged |-> <<>>, raised |-> TRUE]

\* _read_lines_native: the lines of the file, or [] and an error line when
\* open() or read() raises; the exception never leaves the function.
_read_lines_native(file, path) ==
    IF file.ok
    THEN [lines |-> file.lines, logged |-> <<>>, raised |-> FALSE]
    ELSE [lines |-> <<>>, logged |-> <<LineAbout("Error reading", path)>>, raised |-> FALSE]

\* parse's loop without .lower() (line 71)
ParseLines_NoLower(lines) ==
    {Strip(lines[k]) : k \in {j \in 1..Len(lines) :
        LET s == Strip(lines[j]) IN s # <<>> /\ ~StartsWith(s, <<"#">>)}}

\* the body of parse's loop over the lines that were read
ParseLines(lines) ==
    {Lower(Strip(lines[k])) : k \in {j \in 1..Len(lines) :
        LET s == Lower(Strip(lines[j])) IN s # <<>> /\ ~StartsWith(s, <<"#">>)}}

\* load_blocklists.parse(path)
parse(file, path) ==
    LET r == _read_lines_native(file, path)
    IN  [out |-> ParseLines(r.lines),
         logged |-> r.logged \o <<LineAbout("Loaded entries from", path)>>,
         raised |-> r.raised]

(* ---------- Matching: is_blocked ---------- *)
\* `if not hostname` (line 86): None, "" and b"" are falsy
Falsy(v) == v.t = "None" \/ v.s = <<>>

\* `hostname in ALLOWED` (line 89); a bytes object equals no str
InSet(v, S) == v.t = "str" /\ v.s \in S

\* the loop of lines 92-95 from index i on, over a fixed blocked set
RECURSIVE SuffixLoop(_, _, _)
SuffixLoop(parts, i, blocked) ==
    IF i >= Len(parts) THEN FALSE
    ELSE IF SuffixFrom(parts, i) \in blocked THEN TRUE
    ELSE SuffixLoop(parts, i + 1, blocked)

\* is_blocked with the loop stopping before the bare top-level label
\* (range(len(parts) - 1))
is_blocked_NoTopLabel(v, allowed, blocked) ==
    IF Falsy(v) THEN "False"
    ELSE LET hostname == [v EXCEPT !.s = Lower(v.s)]
             parts == Split(hostname.s)
         IN  IF InSet(hostname, allowed) THEN "False"
             ELSE IF hostname.t = "bytes" THEN "TypeError"
             ELSE IF \E i \in 0..(Len(parts) - 2) : SuffixFrom(parts, i) \in blocked
                  THEN "True"
             ELSE "False"

\* is_blocked with the allow-list applied to every suffix, not to the hostname only
is_blocked_SuffixAllow(v, allowed, blocked) ==
    IF Falsy(v) THEN "False"
    ELSE LET hostname == [v EXCEPT !.s = Lower(v.s)]
         IN  IF hostname.t = "str" /\ SuffixLoop(Split(hostname.s), 0, allowed) THEN "False"
             ELSE IF hostname.t = "bytes" THEN "TypeError"
             ELSE IF SuffixLoop(Split(hostname.s), 0, blocked) THEN "True"
             ELSE "False"

\* is_blocked matching with hostname.endswith(rule) instead of whole labels
is_blocked_EndsWith(v, allowed, blocked) ==
    IF Falsy(v) THEN "False"
    ELSE LET hostname == [v EXCEPT !.s = Lower(v.s)]
         IN  IF InSet(hostname, allowed) THEN "False"
             ELSE IF hostname.t = "bytes" THEN "TypeError"
             ELSE IF \E r \in blocked : EndsWith(hostname.s, r) THEN "True"
             ELSE "False"

\* is_blocked without hostname.lower() (line 88)
is_blocked_NoLower(v, allowed, blocked) ==
    IF Falsy(v) THEN "False"
    ELSE IF InSet(v, allowed) THEN "False"
    ELSE IF v.t = "bytes" THEN "TypeError"
    ELSE IF SuffixLoop(Split(v.s), 0, blocked) THEN "True"
    ELSE "False"

\* is_blocked(hostname) run without interruption against one (ALLOWED,
\* BLOCKED) pair: "True", "False", or "TypeError" when bytes.split('.') raises
is_blocked(v, allowed, blocked) ==
    IF Falsy(v) THEN "False"
    ELSE LET hostname == [v EXCEPT !.s = Lower(v.s)]
         IN  IF InSet(hostname, allowed) THEN "False"
             ELSE IF hostname.t = "bytes" THEN "TypeError"
             ELSE IF SuffixLoop(Split(hostname.s), 0, blocked) THEN "True"
             ELSE "False"

(* ---------- state ---------- *)
VARIABLES
    blockRead,      \* what the latest read of BLOCKLIST_PATH found
    allowRead,      \* what the latest read of WHITELIST_PATH found
    BLOCKED,        \* global BLOCKED
    ALLOWED,        \* global ALLOWED
    getaddrinfo,    \* what socket.getaddrinfo is bound to
    wrap_socket,    \* what ssl.SSLContext.wrap_socket is bound to
    http_request,   \* what http.client.HTTPConnection.request is bound to
    pc,             \* the line main_loop's thread is at
    abort,          \* the host has requested shutdown (xbmc.Monitor)
    log,            \* the lines log() wrote last
    call,           \* one call of a host networking thread through a primitive
    selftest,       \* what self_test_once did
    published,      \* history: the (BLOCKED, ALLOWED) pair of the last completed load
    cands,          \* history: the decisions of the running is_blocked against each
                    \* complete pair it overlaps
    pending,        \* history: the evaluation ended while a load was half done
    hostCands,      \* history: is_blocked of the hostname the caller supplied,
                    \* against each complete pair the call overlaps
    earlyAbort      \* history: shutdown was signalled during the startup delay

vars == <<blockRead, allowRead, BLOCKED, ALLOWED, getaddrinfo, wrap_socket,
          http_request, pc, abort, log, call, selftest, published, cands, pending,
          hostCands, earlyAbort>>

files == <<blockRead, allowRead>>
rules == <<BLOCKED, ALLOWED>>
hooks == <<getaddrinfo, wrap_socket, http_request>>
history == <<published, cands, pending, hostCands, earlyAbort>>

\* the calls of log() / _file_log() one step makes
LogLines(lines) == \E w \in Attempts(lines) : log' = LogAppend(log, w)

\* lines 32-34: the originals captured at import
ORIG_getaddrinfo == "ORIG_getaddrinfo"
ORIG_wrap_socket == "ORIG_wrap_socket"
ORIG_http_request == "ORIG_http_request"
\* line 27
SELF_TEST == TRUE

Pair(b, a) == [blocked |-> b, allowed |-> a]

IdleCall ==
    [pc |-> "idle", site |-> "", form |-> "", host |-> None, extracted |-> None,
     hostname |-> None, i |-> 0, blocked |-> "", origCalls |-> 0,
     closed |-> FALSE, outcome |-> ""]

NoSelfTest == [ran |-> FALSE, candidate |-> None, intercepted |-> FALSE, origCalls |-> 0]

\* the module's top level has run down to line 181: lines 30-34
InitCommon ==
    /\ BLOCKED = {}
    /\ ALLOWED = {}
    /\ getaddrinfo = ORIG_getaddrinfo
    /\ wrap_socket = ORIG_wrap_socket
    /\ http_request = ORIG_http_request
    /\ abort = FALSE
    /\ log = <<>>
    /\ call = IdleCall
    /\ selftest = NoSelfTest
    /\ published = Pair({}, {})
    /\ cands = {}
    /\ pending = FALSE
    /\ hostCands = {}
    /\ earlyAbort = FALSE
    /\ blockRead = NotRead
    /\ allowRead = NotRead

Init ==
    /\ InitCommon
    /\ pc = "main_182"

(* ---------- load_blocklists, one assignment at a time ---------- *)
\* line 171, `except Exception`: an Exception leaving main_loop's try block is
\* caught and handled at lines 171-172
Raise == pc' = "main_171"

\* a BaseException that is no Exception (SystemExit, KeyboardInterrupt) leaving
\* the try block: `except Exception` does not catch it, lines 171-172 are
\* skipped and the finally block runs from line 175
RaiseBaseException == pc' = "main_173"

\* line 78: BLOCKED = parse(BLOCKLIST_PATH)
Load78(at, next) ==
    /\ pc = at
    /\ \E bf \in LiveBlockFiles :
         LET r == parse(bf, "BLOCKLIST_PATH")
         IN  /\ blockRead' = bf
             /\ IF r.raised
                THEN /\ Raise
                     /\ UNCHANGED <<BLOCKED, log>>
                ELSE /\ BLOCKED' = r.out
                     /\ LogLines(r.logged)
                     /\ pc' = next
    /\ UNCHANGED <<allowRead, ALLOWED, hooks, abort, call, selftest, history>>

\* lines 79-81: ALLOWED = parse(WHITELIST_PATH) and the two totals
Load79(at, next) ==
    /\ pc = at
    /\ \E af \in LiveAllowFiles :
         LET r == parse(af, "WHITELIST_PATH")
             running == call.pc \in {"is_blocked_86", "is_blocked_89", "is_blocked_93"} \/ pending
         IN  /\ allowRead' = af
             /\ IF r.raised
                THEN /\ Raise
                     /\ UNCHANGED <<ALLOWED, log, history>>
                ELSE /\ ALLOWED' = r.out
                     /\ LogLines(r.logged \o
                            <<Line("Total blocked domains"), Line("Total whitelisted domains")>>)
                     /\ pc' = next
                     /\ published' = Pair(BLOCKED, r.out)
                     /\ cands' = IF running
                                 THEN cands \cup {is_blocked(call.extracted, r.out, BLOCKED)}
                                 ELSE cands
                     /\ hostCands' = IF running
                                     THEN hostCands \cup {is_blocked(call.host, r.out, BLOCKED)}
                                     ELSE hostCands
                     /\ pending' = FALSE
                     /\ UNCHANGED earlyAbort
    /\ UNCHANGED <<blockRead, BLOCKED, hooks, abort, call, selftest>>

(* ---------- Self-test ---------- *)
\* lines 128-134: the first well-known probe present in BLOCKED, otherwise
\* next(iter(BLOCKED)), any element; no candidate when BLOCKED is empty
SelfTestCandidates(blocked) ==
    IF \E k \in 1..Len(PROBES) : PROBES[k] \in blocked
    THEN {PROBES[CHOOSE k \in 1..Len(PROBES) :
                /\ PROBES[k] \in blocked
                /\ \A j \in 1..(k - 1) : PROBES[j] \notin blocked]}
    ELSE blocked

\* self_test_once (lines 124-145); socket.getaddrinfo(candidate, 80) goes to
\* whatever socket.getaddrinfo is bound to; the original resolver may raise,
\* which the inner except turns into a log line
self_test_once ==
    IF SelfTestCandidates(BLOCKED) = {}
    THEN /\ selftest' = [NoSelfTest EXCEPT !.ran = TRUE]
         /\ LogLines(<<Line("SELF-TEST skipped (empty blocklist)")>>)
    ELSE \E c \in SelfTestCandidates(BLOCKED) :
            IF getaddrinfo # ORIG_getaddrinfo /\ is_blocked(Str(c), ALLOWED, BLOCKED) = "True"
            THEN /\ selftest' = [ran |-> TRUE, candidate |-> Str(c),
                                 intercepted |-> TRUE, origCalls |-> 0]
                 /\ LogLines(<<Line("BLOCKED DNS lookup"),
                                            Line("SELF-TEST attempted DNS")>>)
            ELSE /\ selftest' = [ran |-> TRUE, candidate |-> Str(c),
                                 intercepted |-> FALSE, origCalls |-> 1]
                 /\ \E raised \in BOOLEAN :
                      LogLines(<<IF raised
                                THEN Line("SELF-TEST exception (expected if blocked)")
                                ELSE Line("SELF-TEST attempted DNS")>>)

(* ---------- Lifecycle: start_blackhole, main_loop ---------- *)
\* line 182, before main_loop is called
ScriptStart ==
    /\ pc = "main_182"
    /\ LogLines(<<Line("Script started directly (not as Kodi service)")>>)
    /\ pc' = "main_159"
    /\ UNCHANGED <<files, rules, hooks, abort, call, selftest, history>>

\* main_loop's start testing abortRequested() after the startup delay
MainStart_SkipOnAbort ==
    /\ pc = "main_159"
    /\ LogLines(<<Line("Service starting"), FileLine("=== Kronos Blackhole boot ===")>>)
    /\ pc' = IF abort THEN "main_173" ELSE "start_150_78"
    /\ UNCHANGED <<files, rules, hooks, abort, call, selftest, history>>

\* main_loop's start with line 151 run before the load of line 150
MainStart_InstallFirst ==
    /\ pc = "main_159"
    /\ LogLines(<<Line("Service starting"), FileLine("=== Kronos Blackhole boot ===")>>)
    /\ pc' = "start_150_78"
    /\ getaddrinfo' = "patched_getaddrinfo"
    /\ UNCHANGED <<files, rules, wrap_socket, http_request, abort, call, selftest, history>>

\* lines 159-162: the boot lines and the startup delay
MainStart ==
    /\ pc = "main_159"
    /\ LogLines(<<Line("Service starting"), FileLine("=== Kronos Blackhole boot ===")>>)
    /\ pc' = "start_150_78"
    /\ UNCHANGED <<files, rules, hooks, abort, call, selftest, history>>

\* line 150: the initial load_blocklists()
InitialLoad78 == Load78("start_150_78", "start_150_79")
InitialLoad79 == Load79("start_150_79", "start_151")

\* line 151; `ok` is whether the assignment to the module attribute succeeds
Install151 ==
    /\ pc = "start_151"
    /\ \E ok \in BOOLEAN :
         IF ok THEN getaddrinfo' = "patched_getaddrinfo" /\ pc' = "start_152"
               ELSE Raise /\ UNCHANGED getaddrinfo
    /\ UNCHANGED <<files, rules, wrap_socket, http_request, abort, log, call, selftest, history>>

\* line 152
Install152 ==
    /\ pc = "start_152"
    /\ \E ok \in BOOLEAN :
         IF ok THEN wrap_socket' = "patched_wrap_socket" /\ pc' = "start_153"
               ELSE Raise /\ UNCHANGED wrap_socket
    /\ UNCHANGED <<files, rules, getaddrinfo, http_request, abort, log, call, selftest, history>>

\* line 153
Install153 ==
    /\ pc = "start_153"
    /\ \E ok \in BOOLEAN :
         IF ok THEN http_request' = "patched_http_request" /\ pc' = "start_154"
               ELSE Raise /\ UNCHANGED http_request
    /\ UNCHANGED <<files, rules, getaddrinfo, wrap_socket, abort, log, call, selftest, history>>

\* line 154
LogActivated ==
    /\ pc = "start_154"
    /\ LogLines(<<Line("Protection layer activated successfully")>>)
    /\ pc' = "start_155"
    /\ UNCHANGED <<files, rules, hooks, abort, call, selftest, history>>

\* lines 155-156
SelfTest ==
    /\ pc = "start_155"
    /\ IF SELF_TEST THEN self_test_once ELSE UNCHANGED <<selftest, log>>
    /\ pc' = "main_165"
    /\ UNCHANGED <<files, rules, hooks, abort, call, history>>

\* lines 165-166
EnterLoop ==
    /\ pc = "main_165"
    /\ LogLines(<<Line("Entering main monitoring loop")>>)
    /\ pc' = "main_167"
    /\ UNCHANGED <<files, rules, hooks, abort, call, selftest, history>>

\* line 167: while not monitor.abortRequested()
LoopTest ==
    /\ pc = "main_167"
    /\ pc' = IF abort THEN "main_173" ELSE "main_168"
    /\ UNCHANGED <<files, rules, hooks, abort, log, call, selftest, history>>

\* the wait with its result ignored: no break, the reload always follows
Wait_NoBreak ==
    /\ pc = "main_168"
    /\ \/ pc' = "main_170_78"
       \/ Raise
    /\ UNCHANGED <<files, rules, hooks, abort, log, call, selftest, history>>

\* the wait with line 170 left out: an expired wait goes back to the loop test
Wait_NoReload ==
    /\ pc = "main_168"
    /\ \/ abort /\ pc' = "main_173"
       \/ ~abort /\ pc' = "main_167"
       \/ Raise
       \/ RaiseBaseException
    /\ UNCHANGED <<files, rules, hooks, abort, log, call, selftest, history>>

\* lines 168-169: waitForAbort(300) returns True on abort (break), False when
\* the 300 s pass without one; the host primitive may also raise, either an
\* Exception (handled at line 171) or a BaseException (straight to line 175),
\* whether or not shutdown has been signalled
Wait ==
    /\ pc = "main_168"
    /\ \/ abort /\ pc' = "main_173"
       \/ ~abort /\ pc' = "main_170_78"
       \/ Raise
       \/ RaiseBaseException
    /\ UNCHANGED <<files, rules, hooks, abort, log, call, selftest, history>>

\* line 170: the hot reload
Reload78 == Load78("main_170_78", "main_170_79")
Reload79 == Load79("main_170_79", "main_167")

\* lines 171-172
Except ==
    /\ pc = "main_171"
    /\ LogLines(<<Line("Critical error in main loop")>>)
    /\ pc' = "main_173"
    /\ UNCHANGED <<files, rules, hooks, abort, call, selftest, history>>

\* line 175
Finally175 ==
    /\ pc = "main_173"
    /\ getaddrinfo' = ORIG_getaddrinfo
    /\ pc' = "main_176"
    /\ UNCHANGED <<files, rules, wrap_socket, http_request, abort, log, call, selftest, history>>

\* line 176
Finally176 ==
    /\ pc = "main_176"
    /\ wrap_socket' = ORIG_wrap_socket
    /\ pc' = "main_177"
    /\ UNCHANGED <<files, rules, getaddrinfo, http_request, abort, log, call, selftest, history>>

\* the finally block with the restoration of line 177 left out
Finally177_Skipped ==
    /\ pc = "main_177"
    /\ pc' = "main_178"
    /\ UNCHANGED <<files, rules, hooks, abort, log, call, selftest, history>>

\* line 177
Finally177 ==
    /\ pc = "main_177"
    /\ http_request' = ORIG_http_request
    /\ pc' = "main_178"
    /\ UNCHANGED <<files, rules, getaddrinfo, wrap_socket, abort, log, call, selftest, history>>

\* line 178; main_loop returns
Finally178 ==
    /\ pc = "main_178"
    /\ LogLines(<<Line("Service stopped")>>)
    /\ pc' = "stopped"
    /\ UNCHANGED <<files, rules, hooks, abort, call, selftest, history>>

(* ---------- the host ---------- *)
\* the host signals shutdown, at any time before main_loop has returned
HostAbort ==
    /\ ~abort
    /\ pc # "stopped"
    /\ abort' = TRUE
    /\ earlyAbort' = (pc = "main_159")
    /\ UNCHANGED <<files, rules, hooks, pc, log, call, selftest, published, cands, pending, hostCands>>

(* ---------- Patches: one call of a host thread through a primitive ---------- *)
Sites == {"getaddrinfo", "wrap_socket", "http_request"}

\* how the caller supplies the hostname: getaddrinfo's first argument;
\* wrap_socket's server_hostname by keyword or positionally; the request's
\* header under the key "Host" or under "host"
Forms(site) ==
    CASE site = "getaddrinfo" -> {"positional"}
      [] site = "wrap_socket" -> {"keyword", "positional"}
      [] site = "http_request" -> {"Host", "host"}

\* what the primitive is bound to now
Bound(site) ==
    CASE site = "getaddrinfo" -> getaddrinfo
      [] site = "wrap_socket" -> wrap_socket
      [] site = "http_request" -> http_request

Orig(site) ==
    CASE site = "getaddrinfo" -> ORIG_getaddrinfo
      [] site = "wrap_socket" -> ORIG_wrap_socket
      [] site = "http_request" -> ORIG_http_request

\* the hostname the hook looks at: host (line 99), kwargs.get("server_hostname")
\* (line 106), headers.get("Host") (lines 113-115)
Extracted(site, form, host) ==
    CASE site = "getaddrinfo" -> host
      [] site = "wrap_socket" -> IF form = "keyword" THEN host ELSE None
      [] site = "http_request" -> IF form = "Host" THEN host ELSE None

HalfLoaded == pc \in {"start_150_79", "main_170_79"}

\* a host thread calls socket.getaddrinfo / wrap_socket / request: the original
\* when the primitive is not patched, otherwise the hook, which calls is_blocked
HookCall ==
    /\ call.pc = "idle"
    /\ \E site \in Sites : \E form \in Forms(site), host \in HookHosts(site) :
         IF Bound(site) = Orig(site)
         THEN /\ call' = [IdleCall EXCEPT !.pc = "done", !.site = site, !.form = form,
                                          !.host = host, !.origCalls = 1,
                                          !.outcome = "original"]
              /\ UNCHANGED history
         ELSE /\ call' = [IdleCall EXCEPT !.pc = "is_blocked_86", !.site = site,
                                          !.form = form, !.host = host,
                                          !.extracted = Extracted(site, form, host)]
              /\ cands' = {is_blocked(Extracted(site, form, host),
                                       published.allowed, published.blocked)}
              /\ hostCands' = {is_blocked(host, published.allowed, published.blocked)}
              /\ pending' = FALSE
              /\ UNCHANGED <<published, earlyAbort>>
    /\ UNCHANGED <<files, rules, hooks, pc, abort, log, selftest>>

\* is_blocked returns `d` to the hook
Decide(c, d) == [c EXCEPT !.blocked = d, !.pc = "hook"]

\* lines 86-88
IsBlocked86 ==
    /\ call.pc = "is_blocked_86"
    /\ IF Falsy(call.extracted)
       THEN /\ call' = Decide(call, "False")
            /\ pending' = HalfLoaded
       ELSE /\ call' = [call EXCEPT !.pc = "is_blocked_89",
                                    !.hostname = [call.extracted EXCEPT !.s = Lower(@)]]
            /\ UNCHANGED pending
    /\ UNCHANGED <<files, rules, hooks, pc, abort, log, selftest, published, cands,
                   hostCands, earlyAbort>>

\* lines 89-91: the read of ALLOWED, then split('.'), which raises TypeError
\* on a bytes hostname; the exception leaves the hook
IsBlocked89 ==
    /\ call.pc = "is_blocked_89"
    /\ IF InSet(call.hostname, ALLOWED)
       THEN /\ call' = Decide(call, "False")
            /\ pending' = HalfLoaded
       ELSE IF call.hostname.t = "bytes"
       THEN /\ call' = [call EXCEPT !.blocked = "TypeError", !.outcome = "raise TypeError",
                                    !.pc = "done"]
            /\ pending' = HalfLoaded
       ELSE /\ call' = [call EXCEPT !.pc = "is_blocked_93", !.i = 0]
            /\ UNCHANGED pending
    /\ UNCHANGED <<files, rules, hooks, pc, abort, log, selftest, published, cands,
                   hostCands, earlyAbort>>

\* lines 92-95: one iteration, one read of BLOCKED
IsBlocked93 ==
    /\ call.pc = "is_blocked_93"
    /\ LET parts == Split(call.hostname.s)
       IN  IF SuffixFrom(parts, call.i) \in BLOCKED
           THEN /\ call' = Decide(call, "True")
                /\ pending' = HalfLoaded
           ELSE IF call.i + 1 >= Len(parts)
           THEN /\ call' = Decide(call, "False")
                /\ pending' = HalfLoaded
           ELSE /\ call' = [call EXCEPT !.i = @ + 1]
                /\ UNCHANGED pending
    /\ UNCHANGED <<files, rules, hooks, pc, abort, log, selftest, published, cands,
                   hostCands, earlyAbort>>

\* patched_getaddrinfo after is_blocked returned (lines 100-103)
patched_getaddrinfo(c) ==
    IF c.blocked = "True"
    THEN [call |-> [c EXCEPT !.outcome = "return [(AF_INET, SOCK_STREAM, 6, '', ('0.0.0.0', 0))]",
                             !.pc = "done"],
          logged |-> <<Line("BLOCKED DNS lookup")>>]
    ELSE [call |-> [c EXCEPT !.origCalls = @ + 1, !.outcome = "ORIG_getaddrinfo", !.pc = "done"],
          logged |-> <<>>]

\* patched_wrap_socket refusing as well when it was given no server name
patched_wrap_socket_FailClosed(c) ==
    IF c.blocked = "True" \/ Falsy(c.extracted)
    THEN [call |-> [c EXCEPT !.outcome = "raise ssl.SSLError", !.pc = "done"],
          logged |-> <<Line("BLOCKED TLS/SNI")>>]
    ELSE [call |-> [c EXCEPT !.origCalls = @ + 1, !.outcome = "ORIG_wrap_socket", !.pc = "done"],
          logged |-> <<>>]

\* patched_wrap_socket after is_blocked returned (lines 107-110)
patched_wrap_socket(c) ==
    IF c.blocked = "True"
    THEN [call |-> [c EXCEPT !.outcome = "raise ssl.SSLError", !.pc = "done"],
          logged |-> <<Line("BLOCKED TLS/SNI")>>]
    ELSE [call |-> [c EXCEPT !.origCalls = @ + 1, !.outcome = "ORIG_wrap_socket", !.pc = "done"],
          logged |-> <<>>]

\* patched_http_request raising on a block without self.close() (line 118)
patched_http_request_NoClose(c) ==
    IF c.blocked = "True"
    THEN [call |-> [c EXCEPT !.pc = "http_119"],
          logged |-> <<Line("BLOCKED HTTP Host")>>]
    ELSE [call |-> [c EXCEPT !.origCalls = @ + 1, !.outcome = "ORIG_http_request", !.pc = "done"],
          logged |-> <<>>]

\* patched_http_request after is_blocked returned (lines 116-118, 120):
\* on a block the log line and self.close(); the raise is the next line
patched_http_request(c) ==
    IF c.blocked = "True"
    THEN [call |-> [c EXCEPT !.closed = TRUE, !.pc = "http_119"],
          logged |-> <<Line("BLOCKED HTTP Host")>>]
    ELSE [call |-> [c EXCEPT !.origCalls = @ + 1, !.outcome = "ORIG_http_request", !.pc = "done"],
          logged |-> <<>>]

\* line 119
patched_http_request_119(c) ==
    [c EXCEPT !.outcome = "raise ConnectionAbortedError", !.pc = "done"]

\* the hook acts on the decision
HookAct ==
    /\ call.pc = "hook"
    /\ LET r == CASE call.site = "getaddrinfo" -> patched_getaddrinfo(call)
                  [] call.site = "wrap_socket" -> patched_wrap_socket(call)
                  [] call.site = "http_request" -> patched_http_request(call)
       IN  /\ call' = r.call
           /\ LogLines(r.logged)
    /\ UNCHANGED <<files, rules, hooks, pc, abort, selftest, history>>

HookRaise119 ==
    /\ call.pc = "http_119"
    /\ call' = patched_http_request_119(call)
    /\ UNCHANGED <<files, rules, hooks, pc, abort, log, selftest, history>>

\* the call returns to its caller, whatever main_loop is doing; the thread
\* is free for the next call
HookReturn ==
    /\ call.pc = "done"
    /\ call' = IdleCall
    /\ cands' = {}
    /\ hostCands' = {}
    /\ pending' = FALSE
    /\ UNCHANGED <<files, rules, hooks, pc, abort, log, selftest, published, earlyAbort>>

(* ---------- the service with the host's threads ---------- *)
Next ==
    \/ ScriptStart
    \/ MainStart
    \/ InitialLoad78
    \/ InitialLoad79
    \/ Install151
    \/ Install152
    \/ Install153
    \/ LogActivated
    \/ SelfTest
    \/ EnterLoop
    \/ LoopTest
    \/ Wait
    \/ Reload78
    \/ Reload79
    \/ Except
    \/ Finally175
    \/ Finally176
    \/ Finally177
    \/ Finally178
    \/ HostAbort
    \/ HookCall
    \/ IsBlocked86
    \/ IsBlocked89
    \/ IsBlocked93
    \/ HookAct
    \/ HookRaise119
    \/ HookReturn

Spec == Init /\ [][Next]_vars

(* ---------- the loader and the matcher on their own ---------- *)
\* load_blocklists() run to its end (lines 77-81), then is_blocked(h) with no
\* other thread running: the files and the hostname range over all inputs.
InitMatch ==
    /\ InitCommon
    /\ pc = "test_load"

TestLoad ==
    /\ pc = "test_load"
    /\ \E bf \in BlockFiles, af \in AllowFiles :
         LET b == parse(bf, "BLOCKLIST_PATH")
             a == parse(af, "WHITELIST_PATH")
         IN  /\ blockRead' = bf
             /\ allowRead' = af
             /\ BLOCKED' = b.out
             /\ ALLOWED' = a.out
             /\ LogLines(b.logged \o a.logged \o
                        <<Line("Total blocked domains"), Line("Total whitelisted domains")>>)
             /\ published' = Pair(b.out, a.out)
    /\ pc' = "test_is_blocked"
    /\ UNCHANGED <<hooks, abort, call, selftest, cands, pending, hostCands, earlyAbort>>

TestIsBlocked ==
    /\ pc = "test_is_blocked"
    /\ \E h \in MatchHosts :
         call' = [IdleCall EXCEPT !.host = h, !.extracted = h,
                                  !.blocked = is_blocked(h, ALLOWED, BLOCKED)]
    /\ pc' = "test_done"
    /\ UNCHANGED <<files, rules, hooks, abort, log, selftest, history>>

NextMatch ==
    \/ TestLoad
    \/ TestIsBlocked

SpecMatch == InitMatch /\ [][NextMatch]_vars

(* ---------- the claims ---------- *)
\* the dot-suffixes of s: s itself and what follows each of its dots
DotSuffixes(s) ==
    {SubSeq(s, k, Len(s)) : k \in {j \in 1..Len(s) : j = 1 \/ s[j - 1] = "."}}

\* the matcher was run on a str hostname
Matched == pc = "test_done" /\ call.host.t = "str"

\* C3 as stated: if some dot-suffix of h is in BLOCKED and h itself is not in
\* ALLOWED, then is_blocked(h) is true.
C3_AsClaimed ==
    (/\ Matched
     /\ DotSuffixes(call.host.s) \cap BLOCKED # {}
     /\ call.host.s \notin ALLOWED)
    => call.blocked = "True"

\* C3 amended: if some dot-suffix of the lower-cased h is in BLOCKED and the
\* lower-cased h is not in ALLOWED, then is_blocked(h) is true.
C3_SuffixBlocked ==
    (/\ Matched
     /\ DotSuffixes(Lower(call.host.s)) \cap BLOCKED # {}
     /\ Lower(call.host.s) \notin ALLOWED)
    => call.blocked = "True"

\* c.a.b is blocked by the bare top-level rule b alone
C3_Witness ==
    /\ Matched
    /\ call.host.s = s_cab
    /\ DotSuffixes(s_cab) \cap BLOCKED = {s_b}
    /\ s_cab \notin ALLOWED
    /\ call.blocked = "True"

\* a is a proper dot-suffix of h: h is a subdomain of a
IsSubdomain(h, a) == h # a /\ a \in DotSuffixes(h)
\* h and a differ in their first label only
IsSibling(h, a) ==
    /\ h # a
    /\ Len(Split(h)) = Len(Split(a))
    /\ Len(Split(h)) > 1
    /\ Tail(Split(h)) = Tail(Split(a))

\* C4: a hostname that is an entry of ALLOWED is never blocked, whatever
\* BLOCKED holds; and an ALLOWED entry exempts no other hostname: a subdomain
\* or sibling of an entry that is not itself an entry and has a blocked suffix
\* is blocked.
C4_AllowExactOnly ==
    Matched =>
        LET h == Lower(call.host.s)
        IN  /\ call.host.s \in ALLOWED => call.blocked = "False"
            /\ \A a \in ALLOWED :
                 (/\ IsSubdomain(h, a) \/ IsSibling(h, a)
                  /\ h \notin ALLOWED
                  /\ DotSuffixes(h) \cap BLOCKED # {})
                 => call.blocked = "True"

\* a.b is allowed while a.b itself and its suffix b are blocked
C4_Witness ==
    /\ Matched
    /\ call.host.s = s_ab
    /\ s_ab \in ALLOWED
    /\ {s_ab, s_b} \subseteq BLOCKED
    /\ call.blocked = "False"

\* C9 as stated: after a load every entry of BLOCKED and ALLOWED is non-empty,
\* trimmed, lower-cased, not a comment, has no trailing dot and no leading
\* wildcard marker.
C9_AsClaimed ==
    pc # "test_load" =>
        \A e \in BLOCKED \cup ALLOWED :
            /\ e # <<>>
            /\ Strip(e) = e
            /\ Lower(e) = e
            /\ e[1] # "#"
            /\ e[Len(e)] # "."
            /\ ~StartsWith(e, <<"*", ".">>)

\* C10: is_blocked(h) is true only if the lower-cased h equals an entry of
\* BLOCKED or ends with "." followed by an entry.
C10_WholeLabels ==
    (Matched /\ call.blocked = "True")
    => \E r \in BLOCKED :
          \/ Lower(call.host.s) = r
          \/ EndsWith(Lower(call.host.s), <<".">> \o r)

\* the rule a.b alone leaves ba.b unblocked
C10_Witness ==
    /\ Matched
    /\ call.host.s = s_bab
    /\ BLOCKED = {s_ab}
    /\ call.blocked = "False"

(* ---------- claims about the running service ---------- *)
Patched == <<"patched_getaddrinfo", "patched_wrap_socket", "patched_http_request">>
Originals == <<ORIG_getaddrinfo, ORIG_wrap_socket, ORIG_http_request>>
Range(q) == {q[k] : k \in 1..Len(q)}

\* the call went through a hook and is_blocked has returned or raised
Decided == call.pc \in {"hook", "http_119", "done"} /\ call.blocked # ""

\* C1 as stated: the decision of an is_blocked evaluation that overlaps hot
\* reloads is the decision against one complete (BLOCKED, ALLOWED) pair: the
\* pair before a reload or the pair after it.
C1_AsClaimed ==
    (Decided /\ ~pending) => call.blocked \in cands

\* C2: once main_loop has ended, by whichever path, each of the three
\* primitives is bound to its original (so restoring them once more would
\* change nothing) and no patched hook is installed.
C2_Restored ==
    pc = "stopped" =>
        /\ getaddrinfo = ORIG_getaddrinfo
        /\ wrap_socket = ORIG_wrap_socket
        /\ http_request = ORIG_http_request

\* main_loop ended on a host shutdown after a complete activation
C2_Witness ==
    /\ pc = "stopped"
    /\ abort
    /\ selftest.ran
    /\ hooks = Originals

\* the refusal each hook gives
Refusal(site) ==
    CASE site = "getaddrinfo" -> "return [(AF_INET, SOCK_STREAM, 6, '', ('0.0.0.0', 0))]"
      [] site = "wrap_socket" -> "raise ssl.SSLError"
      [] site = "http_request" -> "raise ConnectionAbortedError"

\* C5: a call whose extracted hostname is_blocked reports blocked never
\* reaches the original and ends in the refusal of its layer; the request
\* hook has closed the connection before it raises.
C5_Refused ==
    (Decided /\ call.blocked = "True") =>
        /\ call.origCalls = 0
        /\ call.pc = "done" => call.outcome = Refusal(call.site)
        /\ call.pc # "done" => call.outcome = ""
        /\ (call.site = "http_request" /\ call.pc \in {"http_119", "done"}) => call.closed

\* a blocked request was closed, then refused
C5_Witness ==
    /\ call.pc = "done"
    /\ call.site = "http_request"
    /\ call.blocked = "True"
    /\ call.closed
    /\ call.outcome = "raise ConnectionAbortedError"
    /\ call.origCalls = 0

\* C6 as stated: a call through a hook whose hostname is not blocked reaches
\* the original exactly once and ends as the original does; the hook raises
\* nothing of its own.
C6_AsClaimed ==
    (/\ call.pc = "done"
     /\ call.outcome # "original"
     /\ call.blocked # "True")
    => /\ call.origCalls = 1
       /\ call.outcome = Orig(call.site)

\* the line went to the Kodi log in the latest write
Reported(l, line) ==
    \E k \in 1..Len(l) : l[k].msg = line.msg /\ l[k].about = line.about /\ l[k].kodi

\* activation ended in an exception: the handler or what follows it, with the
\* self-test never reached
ActivationFailed ==
    /\ pc \in {"main_171", "main_173", "main_176", "main_177", "main_178", "stopped"}
    /\ ~selftest.ran

\* C7 as stated: when a hook installation fails the monitoring loop is never
\* entered, no hook stays installed once the failure is handled, and the hooks
\* that were installed are removed before the failure is reported.
C7_AsClaimed ==
    /\ pc \in {"main_165", "main_167", "main_168", "main_170_78", "main_170_79"}
          => hooks = Patched
    /\ ActivationFailed =>
          /\ pc = "stopped" => hooks = Originals
          /\ Reported(log, Line("Critical error in main loop")) => hooks = Originals

\* the line main_loop resumes at after a load step
AfterLoad(at) ==
    CASE at = "start_150_78" -> "start_150_79"
      [] at = "start_150_79" -> "start_151"
      [] at = "main_170_78" -> "main_170_79"
      [] at = "main_170_79" -> "main_167"

ErrorLine(path) == LineAbout("Error reading", path)

\* C8: every step of the initial load and of a hot reload returns to the
\* controller; an unreadable file empties its side and is logged, a readable
\* one is loaded whatever happened to the other; the hooks are untouched, so a
\* reload leaves all three installed; and with BLOCKED empty is_blocked is
\* false for every hostname.
C8_LoadStep ==
    /\ (pc \in {"start_150_78", "main_170_78"} /\ pc' # pc) =>
          /\ pc' = AfterLoad(pc)
          /\ hooks' = hooks
          /\ ~blockRead'.ok => (BLOCKED' = {} /\ Reported(log', ErrorLine("BLOCKLIST_PATH")))
          /\ blockRead'.ok => BLOCKED' = ParseLines(blockRead'.lines)
          /\ BLOCKED' = {} =>
                \A h \in MatchHosts : is_blocked(h, ALLOWED', BLOCKED') = "False"
    /\ (pc \in {"start_150_79", "main_170_79"} /\ pc' # pc) =>
          /\ pc' = AfterLoad(pc)
          /\ hooks' = hooks
          /\ ~allowRead'.ok => (ALLOWED' = {} /\ Reported(log', ErrorLine("WHITELIST_PATH")))
          /\ allowRead'.ok => ALLOWED' = ParseLines(allowRead'.lines)
    /\ (pc \in {"main_170_78", "main_170_79"} /\ pc' # pc) => hooks' = Patched

C8_LoadNeverRaises == [][C8_LoadStep]_vars

\* a hot reload has just found the blocklist unreadable: BLOCKED, which held
\* entries, is empty, the error is in the log and the hooks are installed
C8_Witness ==
    /\ pc = "main_170_79"
    /\ published.blocked # {}
    /\ BLOCKED = {}
    /\ Reported(log, ErrorLine("BLOCKLIST_PATH"))
    /\ hooks = Patched

(* ---------- the loader run twice ---------- *)
\* the same entries written otherwise: the lines in reverse order, every line
\* twice, every letter in upper case, every line with blanks around it
UpperChar(c) ==
    CASE c = "a" -> "A"
      [] c = "b" -> "B"
      [] c = "c" -> "C"
      [] OTHER -> c
Upper(s) == [k \in 1..Len(s) |-> UpperChar(s[k])]
Reverse(q) == [k \in 1..Len(q) |-> q[Len(q) + 1 - k]]
Rewrites == {"same", "reverse", "duplicate", "upper", "pad"}
Rewritten(file, how) ==
    IF ~file.ok THEN file
    ELSE File(CASE how = "same" -> file.lines
                [] how = "reverse" -> Reverse(file.lines)
                [] how = "duplicate" -> file.lines \o file.lines
                [] how = "upper" -> [k \in 1..Len(file.lines) |-> Upper(file.lines[k])]
                [] how = "pad" -> [k \in 1..Len(file.lines) |->
                                      <<" ">> \o file.lines[k] \o <<" ">>])

\* load_blocklists() once more (lines 77-81), the two files having been
\* written anew since the first load; published keeps the first result
LoadAgain ==
    /\ pc = "test_is_blocked"
    /\ \E how \in Rewrites :
         LET bf == Rewritten(blockRead, how)
             af == Rewritten(allowRead, how)
             b == parse(bf, "BLOCKLIST_PATH")
             a == parse(af, "WHITELIST_PATH")
         IN  /\ blockRead' = bf
             /\ allowRead' = af
             /\ BLOCKED' = b.out
             /\ ALLOWED' = a.out
             /\ LogLines(b.logged \o a.logged \o
                        <<Line("Total blocked domains"), Line("Total whitelisted domains")>>)
    /\ pc' = "loaded_twice"
    /\ UNCHANGED <<hooks, abort, call, selftest, history>>

NextLoad ==
    \/ TestLoad
    \/ LoadAgain

SpecLoad == InitMatch /\ [][NextLoad]_vars

\* C11: a second load of the same two files, or of files that differ from
\* them only in line order, repeated lines, letter case or blanks around the
\* entries, gives the same BLOCKED and the same ALLOWED as the first.
C11_LoadIdempotent ==
    pc = "loaded_twice" =>
        /\ BLOCKED = published.blocked
        /\ ALLOWED = published.allowed

\* the blocklist b, a.b was rewritten in upper case and loaded again
C11_Witness ==
    /\ pc = "loaded_twice"
    /\ blockRead = File(<<Upper(s_b), Upper(s_ab)>>)
    /\ BLOCKED = {s_b, s_ab}
    /\ published.blocked = {s_b, s_ab}

\* the call went through a hook (the primitive was patched when it was made)
Hooked == call.pc \in {"hook", "http_119", "done"} /\ call.outcome # "original"

\* C12: is_blocked of None and of the empty string is false for the loaded
\* sets, and a hooked call in which the hook finds no hostname is decided
\* False and ends in exactly one call of the original primitive.
C12_NoHostPassedThrough ==
    /\ \A v \in {None, Str(s_empty)} : is_blocked(v, ALLOWED, BLOCKED) = "False"
    /\ (Hooked /\ Falsy(call.extracted)) =>
          /\ call.blocked = "False"
          /\ call.pc # "http_119"
          /\ call.pc = "done" => (call.origCalls = 1 /\ call.outcome = Orig(call.site))

\* wrap_socket(server_hostname=None) went to the original with rules loaded
C12_Witness ==
    /\ call.pc = "done"
    /\ call.site = "wrap_socket"
    /\ call.form = "keyword"
    /\ call.host = None
    /\ call.outcome = ORIG_wrap_socket
    /\ call.origCalls = 1
    /\ BLOCKED # {}

\* C13: for the sets that load_blocklists produced and every str hostname h,
\* is_blocked(h) equals is_blocked of h in lower case.
C13_CaseInsensitive ==
    Matched => call.blocked = is_blocked(Str(Lower(call.host.s)), ALLOWED, BLOCKED)

\* A.b is blocked by the rule a.b, as a.b is
C13_Witness ==
    /\ Matched
    /\ call.host.s = s_Ab
    /\ s_ab \in BLOCKED
    /\ s_ab \notin ALLOWED
    /\ call.blocked = "True"
    /\ is_blocked(Str(s_ab), ALLOWED, BLOCKED) = "True"

\* C14 as stated: with the three hooks installed, a wrap_socket call whose
\* server name is blocked under every rule set in force during the call ends
\* refused, without a call of the original wrap_socket, whether the name was
\* passed by keyword or positionally.
C14_AsClaimed ==
    (/\ hooks = Patched
     /\ Hooked
     /\ call.site = "wrap_socket"
     /\ call.pc = "done"
     /\ ~pending
     /\ hostCands = {"True"})
    => (call.origCalls = 0 /\ call.outcome = "raise ssl.SSLError")

\* C15 as stated: when activation is complete the self-test has run with the
\* three hooks installed; with a non-empty BLOCKED it made one probe lookup,
\* which the resolution hook blocked, so the original resolver was not
\* called, also when the probe is allow-listed; with an empty BLOCKED it made
\* no lookup.
C15_AsClaimed ==
    pc = "main_165" =>
        /\ selftest.ran
        /\ hooks = Patched
        /\ BLOCKED # {} =>
              /\ selftest.candidate # None
              /\ selftest.intercepted
              /\ selftest.origCalls = 0
        /\ BLOCKED = {} =>
              /\ selftest.candidate = None
              /\ selftest.origCalls = 0

\* C17: whenever a primitive is patched, and whenever a hook evaluates or has
\* evaluated a call, the initial load_blocklists() (line 150) has completed.
C17_LoadBeforeHooks ==
    (\/ hooks # Originals
     \/ Hooked
     \/ call.pc \in {"is_blocked_86", "is_blocked_89", "is_blocked_93"})
    => pc \notin {"main_182", "main_159", "start_150_78", "start_150_79"}

\* the first hook alone is installed and already evaluates a call against
\* the loaded rule a.b
C17_Witness ==
    /\ pc = "start_152"
    /\ getaddrinfo = "patched_getaddrinfo"
    /\ wrap_socket = ORIG_wrap_socket
    /\ call.pc = "is_blocked_93"
    /\ call.site = "getaddrinfo"
    /\ s_ab \in BLOCKED

(* ---------- main_loop alone, scheduled fairly ---------- *)
\* one step of the service thread
Controller ==
    \/ ScriptStart
    \/ MainStart
    \/ InitialLoad78
    \/ InitialLoad79
    \/ Install151
    \/ Install152
    \/ Install153
    \/ LogActivated
    \/ SelfTest
    \/ EnterLoop
    \/ LoopTest
    \/ Wait
    \/ Reload78
    \/ Reload79
    \/ Except
    \/ Finally175
    \/ Finally176
    \/ Finally177
    \/ Finally178

NextLife ==
    \/ ScriptStart
    \/ MainStart
    \/ InitialLoad78
    \/ InitialLoad79
    \/ Install151
    \/ Install152
    \/ Install153
    \/ LogActivated
    \/ SelfTest
    \/ EnterLoop
    \/ LoopTest
    \/ Wait
    \/ Reload78
    \/ Reload79
    \/ Except
    \/ Finally175
    \/ Finally176
    \/ Finally177
    \/ Finally178
    \/ HostAbort

\* the service thread keeps running: every line it is at is executed, and
\* waitForAbort(300) returns after 300 s at the latest
SpecLife == Init /\ [][NextLife]_vars /\ WF_vars(Controller)

\* the loop of lines 167-170: the loop test, the wait, the reload
InLoop == pc \in {"main_167", "main_168", "main_170_78", "main_170_79"}

\* a step of main_loop that sees the shutdown signal at the loop test or in
\* the wait leaves the loop (or raises); it starts no reload
C16_NoReloadAfterSignal ==
    (abort /\ pc \in {"main_167", "main_168"} /\ pc' # pc) => pc' \in {"main_173", "main_171"}

\* C16: once shutdown is signalled with main_loop in its loop, the loop test
\* and the wait start no further reload, and main_loop eventually reaches
\* its end with the three originals restored.
C16_ShutdownHonoured ==
    /\ [][C16_NoReloadAfterSignal]_vars
    /\ (abort /\ InLoop) ~> (pc = "stopped" /\ hooks = Originals)

\* shutdown came after activation and main_loop has ended
C16_Witness ==
    /\ abort
    /\ ~earlyAbort
    /\ selftest.ran
    /\ pc = "stopped"
    /\ hooks = Originals
    /\ Line("Service stopped") \in Range(log)

\* no shutdown signalled, no error raised, main_loop not ended
Running ==
    /\ ~abort
    /\ pc \notin {"main_171", "main_173", "main_176", "main_177", "main_178", "stopped"}

\* a wait that ends without shutdown either expires, and then the reload
\* starts, or is an error that leaves the loop (an Exception to the handler at
\* line 171, a BaseException to the finally block at line 175): it never goes
\* back to the loop test without a reload; the reload reads
\* the blocklist, then the allow-list, as they are then, and ends at the loop test with the
\* three hooks installed; nothing else leads into or out of the reload
C18_ReloadStep ==
    /\ (pc = "main_168" /\ ~abort /\ pc' # pc) =>
          pc' \in {"main_170_78", "main_171", "main_173"}
    /\ (pc' = "main_170_78" /\ pc' # pc) => (pc = "main_168" /\ ~abort)
    /\ (pc = "main_170_78" /\ pc' # pc) =>
          /\ pc' = "main_170_79"
          /\ BLOCKED' = ParseLines(blockRead'.lines)
          /\ hooks' = Patched
    /\ (pc = "main_170_79" /\ pc' # pc) =>
          /\ pc' = "main_167"
          /\ ALLOWED' = ParseLines(allowRead'.lines)
          /\ hooks' = Patched

\* C18: every expiry of the wait without shutdown or error is followed by
\* one reload that ends at the loop test with the three hooks installed, and
\* if main_loop keeps running, the reload comes again and again; each reload
\* sets BLOCKED and ALLOWED to what the files hold when it reads them, so a
\* change of a file is taken up by the reload that follows it.
C18_ReloadEachExpiry ==
    /\ [][C18_ReloadStep]_vars
    /\ (pc = "main_170_78") ~> (abort \/ (pc = "main_167" /\ hooks = Patched))
    /\ (<>[]Running) => []<>(pc = "main_170_78")

\* a reload has taken the files as changed after the initial load
C18_Witness ==
    /\ pc = "main_167"
    /\ ~abort
    /\ hooks = Patched
    /\ Line("Total whitelisted domains") \in Range(log)
    /\ BLOCKED = {s_b, PROBES[2]}
    /\ selftest.candidate = Str(s_ab)

\* after the startup delay main_loop goes on to the initial load whether or
\* not shutdown was signalled during the delay
C19_ActivationStarts ==
    (earlyAbort /\ pc = "main_159" /\ pc' # pc) => pc' = "start_150_78"

\* C19: with shutdown signalled during the startup delay, main_loop still
\* runs the activation (load, the three installations, the self-test) and,
\* unless an installation fails, reaches the loop test with the hooks
\* installed; it then never waits and never reloads, and ends with the
\* originals restored.
C19_EarlyShutdown ==
    /\ [][C19_ActivationStarts]_vars
    /\ [](earlyAbort => pc \notin {"main_168", "main_170_78", "main_170_79"})
    /\ []((earlyAbort /\ pc = "main_167") =>
             (hooks = Patched /\ selftest.ran /\ BLOCKED = published.blocked
                /\ ALLOWED = published.allowed))
    /\ (earlyAbort /\ pc = "main_159") ~>
          (pc = "main_171" \/ (pc = "main_167" /\ hooks = Patched /\ selftest.ran))
    /\ earlyAbort ~> (pc = "stopped" /\ hooks = Originals)

\* main_loop has ended after a shutdown signalled during the delay; the
\* activation had loaded a.b and run the self-test
C19_Witness ==
    /\ earlyAbort
    /\ pc = "stopped"
    /\ selftest.ran
    /\ selftest.candidate = Str(s_ab)
    /\ BLOCKED = {s_ab}
    /\ hooks = Originals

====
